---- MODULE Spec2Model ----
(***************************************************************************)
(* Model of app.py: the simulated Kyber KEM (key generation, shared-secret *)
(* derivation, encapsulation, decapsulation), the entropy and distribution *)
(* analysis of the shared secret, and the Streamlit script that drives     *)
(* them from the session state.                                            *)
(*                                                                         *)
(* Representation.  bytes are sequences of integers 0..255; a str is a     *)
(* sequence of Unicode code points; a 32-bit word is a pair <<hi, lo>> of  *)
(* 16-bit halves, so that no intermediate value leaves the integers TLC    *)
(* computes with.                                                          *)
(***************************************************************************)
EXTENDS Integers, Sequences, FiniteSets, TLC

----------------------------------------------------------------------------
(* Python built-ins used by app.py.                                        *)

\* list(f): the sequence f with its elements computed, once
List(f) == SubSeq(f, 1, Len(f))

\* dict(f): the function f with its values computed, once
Dict(f) == f @@ <<>>

\* s[:n] for n >= 0
Take(s, n) == SubSeq(s, 1, IF n < Len(s) THEN n ELSE Len(s))

\* s[i:j] for 0 <= i <= j (0-based, end exclusive, clipped to the length)
Slice(s, i, j) == SubSeq(s, i + 1, IF j < Len(s) THEN j ELSE Len(s))

\* min(a, b)
Min(a, b) == IF a < b THEN a ELSE b

\* range(0, stop, step) as the ascending sequence of its values
Range0(stop, step) ==
    List([k \in 1..((stop + step - 1) \div step) |-> (k - 1) * step])

----------------------------------------------------------------------------
(* hashlib.sha256(...).hexdigest(): SHA-256 (FIPS 180-4) on 16-bit halves.  *)

RECURSIVE XorBits(_, _)
XorBits(a, b) == IF a = 0 THEN b
                 ELSE IF b = 0 THEN a
                 ELSE ((a + b) % 2) + 2 * XorBits(a \div 2, b \div 2)

RECURSIVE AndBits(_, _)
AndBits(a, b) == IF a = 0 \/ b = 0 THEN 0
                 ELSE (a % 2) * (b % 2) + 2 * AndBits(a \div 2, b \div 2)

\* the two operations on bytes, tabulated
XorByte == List([a \in 1..256 |-> List([b \in 1..256 |-> XorBits(a - 1, b - 1)])])
AndByte == List([a \in 1..256 |-> List([b \in 1..256 |-> AndBits(a - 1, b - 1)])])

\* on 16-bit halves
Xor(a, b) == 256 * XorByte[(a \div 256) + 1][(b \div 256) + 1]
                 + XorByte[(a % 256) + 1][(b % 256) + 1]
And(a, b) == 256 * AndByte[(a \div 256) + 1][(b \div 256) + 1]
                 + AndByte[(a % 256) + 1][(b % 256) + 1]

WXor(x, y) == <<Xor(x[1], y[1]), Xor(x[2], y[2])>>
WAnd(x, y) == <<And(x[1], y[1]), And(x[2], y[2])>>
WNot(x) == <<65535 - x[1], 65535 - x[2]>>
WAdd(x, y) == <<(x[1] + y[1] + ((x[2] + y[2]) \div 65536)) % 65536,
                (x[2] + y[2]) % 65536>>

\* rotate right by n, 0 <= n < 32
RotR(x, n) ==
    LET y == IF n >= 16 THEN <<x[2], x[1]>> ELSE x
        k == n % 16
        p == 2 ^ k
        q == 2 ^ (16 - k)
    IN  <<(y[1] \div p) + (y[2] % p) * q, (y[2] \div p) + (y[1] % p) * q>>

\* shift right by n, 0 <= n < 16
ShR(x, n) ==
    LET p == 2 ^ n
        q == 2 ^ (16 - n)
    IN  <<x[1] \div p, (x[2] \div p) + (x[1] % p) * q>>

Ch(x, y, z) == WXor(WAnd(x, y), WAnd(WNot(x), z))
Maj(x, y, z) == WXor(WXor(WAnd(x, y), WAnd(x, z)), WAnd(y, z))
BigSigma0(x) == WXor(WXor(RotR(x, 2), RotR(x, 13)), RotR(x, 22))
BigSigma1(x) == WXor(WXor(RotR(x, 6), RotR(x, 11)), RotR(x, 25))
SmallSigma0(x) == WXor(WXor(RotR(x, 7), RotR(x, 18)), ShR(x, 3))
SmallSigma1(x) == WXor(WXor(RotR(x, 17), RotR(x, 19)), ShR(x, 10))

SHA256_K ==
  <<
     <<17034, 12184>>, <<28983, 17553>>, <<46528, 64463>>, <<59829, 56229>>,
     <<14678, 49755>>, <<23025, 4593>>, <<37439, 33444>>, <<43804, 24277>>,
     <<55303, 43672>>, <<4739, 23297>>, <<9265, 34238>>, <<21772, 32195>>,
     <<29374, 23924>>, <<32990, 45566>>, <<39900, 1703>>, <<49563, 61812>>,
     <<58523, 27073>>, <<61374, 18310>>, <<4033, 40390>>, <<9228, 41420>>,
     <<11753, 11375>>, <<19060, 33962>>, <<23728, 43484>>, <<30457, 35034>>,
     <<38974, 20818>>, <<43057, 50797>>, <<45059, 10184>>, <<48985, 32711>>,
     <<50912, 3059>>, <<54695, 37191>>, <<1738, 25425>>, <<5161, 10599>>,
     <<10167, 2693>>, <<11803, 8504>>, <<19756, 28156>>, <<21304, 3347>>,
     <<25866, 29524>>, <<30314, 2747>>, <<33218, 51502>>, <<37490, 11397>>,
     <<41663, 59553>>, <<43034, 26187>>, <<49739, 35696>>, <<51052, 20899>>,
     <<53650, 59417>>, <<54937, 1572>>, <<62478, 13701>>, <<4202, 41072>>,
     <<6564, 49430>>, <<7735, 27656>>, <<10056, 30540>>, <<13488, 48309>>,
     <<14620, 3251>>, <<20184, 43594>>, <<23452, 51791>>, <<26670, 28659>>,
     <<29839, 33518>>, <<30885, 25455>>, <<33992, 30740>>, <<36039, 520>>,
     <<37054, 65530>>, <<42064, 27883>>, <<48889, 41975>>, <<50801, 30962>>
  >>

SHA256_H0 ==
  <<
     <<27145, 58983>>, <<47975, 44677>>, <<15470, 62322>>, <<42319, 62778>>,
     <<20750, 21119>>, <<39685, 26764>>, <<8067, 55723>>, <<23520, 52505>>
  >>

\* message || 0x80 || 0x00* || 64-bit big-endian bit length, a multiple of 64 bytes
SHA256Pad(bytes) ==
    LET n == Len(bytes)
        z == (119 - (n % 64)) % 64
        bits == 8 * n
    IN  bytes \o <<128>> \o List([i \in 1..z |-> 0])
              \o <<0, 0, 0, 0>>
              \o <<(bits \div 16777216) % 256, (bits \div 65536) % 256,
                   (bits \div 256) % 256, bits % 256>>

\* the 16 big-endian words of block b (0-based) of the padded message
SHA256Block(padded, b) ==
    List([t \in 1..16 |->
        LET o == 64 * b + 4 * (t - 1)
        IN  <<256 * padded[o + 1] + padded[o + 2], 256 * padded[o + 3] + padded[o + 4]>>])

RECURSIVE SHA256Schedule(_)
SHA256Schedule(w) ==
    IF Len(w) = 64 THEN w
    ELSE LET t == Len(w) + 1
             next == WAdd(WAdd(SmallSigma1(w[t - 2]), w[t - 7]),
                          WAdd(SmallSigma0(w[t - 15]), w[t - 16]))
         IN  SHA256Schedule(Append(w, next))

\* one round of the compression function on the working variables a..h
SHA256Round(s, w, t) ==
    LET t1 == WAdd(WAdd(WAdd(s[8], BigSigma1(s[5])), Ch(s[5], s[6], s[7])),
                   WAdd(SHA256_K[t], w[t]))
        t2 == WAdd(BigSigma0(s[1]), Maj(s[1], s[2], s[3]))
    IN  <<WAdd(t1, t2), s[1], s[2], s[3], WAdd(s[4], t1), s[5], s[6], s[7]>>

\* rounds t..64 (Len(s) has TLC evaluate each round's state in turn)
RECURSIVE SHA256Rounds(_, _, _)
SHA256Rounds(s, w, t) ==
    IF Len(s) # 8 \/ t > 64 THEN s
    ELSE SHA256Rounds(SHA256Round(s, w, t), w, t + 1)

SHA256AddState(h, s) ==
    <<WAdd(h[1], s[1]), WAdd(h[2], s[2]), WAdd(h[3], s[3]), WAdd(h[4], s[4]),
      WAdd(h[5], s[5]), WAdd(h[6], s[6]), WAdd(h[7], s[7]), WAdd(h[8], s[8])>>

SHA256Compress(h, block) ==
    SHA256AddState(h, SHA256Rounds(h, SHA256Schedule(block), 1))

RECURSIVE SHA256Blocks(_, _, _)
SHA256Blocks(h, padded, b) ==
    IF Len(h) # 8 \/ 64 * b >= Len(padded) THEN h
    ELSE SHA256Blocks(SHA256Compress(h, SHA256Block(padded, b)), padded, b + 1)

\* the digest as 32 bytes
SHA256Digest(bytes) ==
    LET h == SHA256Blocks(SHA256_H0, SHA256Pad(bytes), 0)
    IN  List([i \in 1..32 |->
            LET half == h[((i - 1) \div 4) + 1][(((i - 1) % 4) \div 2) + 1]
            IN  IF i % 2 = 1 THEN half \div 256 ELSE half % 256])

\* the characters of a lowercase hexadecimal digit string, by value
HexDigits == <<"0", "1", "2", "3", "4", "5", "6", "7",
               "8", "9", "a", "b", "c", "d", "e", "f">>

\* bytes.hex() / hexdigest(): two lowercase hex digits per byte
Hex(bytes) ==
    List([i \in 1..(2 * Len(bytes)) |->
        LET b == bytes[(i + 1) \div 2]
        IN  HexDigits[(IF i % 2 = 1 THEN b \div 16 ELSE b % 16) + 1]])

sha256_hexdigest(bytes) == Hex(SHA256Digest(bytes))

----------------------------------------------------------------------------
(* Bounds of the model.                                                    *)

\* longest message typed into the text input
MaxMsgLen == 2

\* number of distinct byte strings os.urandom is taken to return, per length
NumRandom == 2

\* longest string handed to the analysis steps when they are exercised alone
MaxDataLen == 66

----------------------------------------------------------------------------
(* Values.                                                                 *)

\* Python's None
None == "None"

\* code points a message is typed from: "h", "e-acute", an emoji
Alphabet == {104, 233, 128274}

Messages == UNION {[1..n -> Alphabet] : n \in 0..MaxMsgLen}

\* os.urandom(n): the byte strings of length n the source may return
urandom(n) ==
    {List([i \in 1..n |-> (89 * r * i + 151 * r) % 256]) : r \in 1..NumRandom}

\* str.encode(): UTF-8 of one code point (a Unicode scalar value)
Utf8(cp) ==
    IF cp < 128 THEN <<cp>>
    ELSE IF cp < 2048 THEN <<192 + (cp \div 64), 128 + (cp % 64)>>
    ELSE IF cp < 65536
         THEN <<224 + (cp \div 4096), 128 + ((cp \div 64) % 64), 128 + (cp % 64)>>
         ELSE <<240 + (cp \div 262144), 128 + ((cp \div 4096) % 64),
                128 + ((cp \div 64) % 64), 128 + (cp % 64)>>

\* str.encode() of a message
RECURSIVE encode(_)
encode(message) ==
    IF message = <<>> THEN <<>>
    ELSE Utf8(Head(message)) \o encode(Tail(message))

----------------------------------------------------------------------------
(* Core functions.                                                         *)

\* the pairs (public_key, secret_key) a call may return
kyber_keygen ==
    {<<public_key, secret_key>> : public_key \in urandom(32), secret_key \in urandom(32)}

\* the byte strings the script can hash: a message, encoded, then a key
HashInputs == {encode(m) \o k : m \in Messages, k \in urandom(32)}

\* their digests, computed once
Sha256Table == Dict([bytes \in HashInputs |-> sha256_hexdigest(bytes)])

\* hashlib.sha256(bytes).hexdigest(), for bytes in HashInputs
hashlib_sha256_hexdigest(bytes) == Sha256Table[bytes]

\* faulty variant: a 128-bit digest, 32 hexadecimal characters
derive_shared_secret_short(message, public_key) ==
    Take(hashlib_sha256_hexdigest(encode(message) \o public_key), 32)

derive_shared_secret(message, public_key) ==
    LET combined == encode(message) \o public_key
    IN  hashlib_sha256_hexdigest(combined)

\* faulty variant: the secret derived from the ciphertext, not the public key
kyber_encapsulate_from_ciphertext(public_key, message) ==
    {<<ciphertext, sha256_hexdigest(encode(message) \o ciphertext)>> :
        ciphertext \in urandom(64)}

\* the pairs (ciphertext, shared_secret) a call may return
kyber_encapsulate(public_key, message) ==
    {<<ciphertext, derive_shared_secret(message, public_key)>> :
        ciphertext \in urandom(64)}

\* faulty variant: decapsulation keyed on the secret key
kyber_decapsulate_with_secret_key(ciphertext, secret_key, message, public_key) ==
    derive_shared_secret(message, secret_key)

\* faulty variant: decapsulation that mixes the ciphertext in
kyber_decapsulate_with_ciphertext(ciphertext, secret_key, message, public_key) ==
    sha256_hexdigest(encode(message) \o public_key \o Take(ciphertext, 1))

kyber_decapsulate(ciphertext, secret_key, message, public_key) ==
    derive_shared_secret(message, public_key)

----------------------------------------------------------------------------
(* collections.Counter and calculate_entropy.                              *)

\* the distinct elements of data in first-seen order (a Counter's key order)
RECURSIVE FirstSeen(_, _)
FirstSeen(data, seen) ==
    IF data = <<>> THEN seen
    ELSE IF \E i \in DOMAIN seen : seen[i] = Head(data)
         THEN FirstSeen(Tail(data), seen)
         ELSE FirstSeen(Tail(data), Append(seen, Head(data)))

\* Counter(data): element -> number of occurrences
Counter(data) ==
    Dict([c \in {data[i] : i \in DOMAIN data} |->
        Cardinality({i \in DOMAIN data : data[i] = c})])

\* math.log2 of a positive integer in fixed point, 14 fractional bits
RECURSIVE FloorLog2(_)
FloorLog2(x) == IF x < 2 THEN 0 ELSE 1 + FloorLog2(x \div 2)

RECURSIVE Log2Fraction(_, _)
Log2Fraction(y, w) ==
    IF w < 1 THEN 0
    ELSE LET z == (y * y) \div (2 ^ 14)
         IN  IF z >= 2 ^ 15 THEN w + Log2Fraction(z \div 2, w \div 2)
             ELSE Log2Fraction(z, w \div 2)

log2_fixed(x) ==
    LET k == FloorLog2(x)
    IN  k * (2 ^ 14) + Log2Fraction((x * (2 ^ 14)) \div (2 ^ k), 2 ^ 13)

\* sum over the counts of -(count / total) * log2(count / total), times
\* total * 2^14: log2(count / total) is log2(count) - log2(total)
RECURSIVE EntropySum(_, _, _)
EntropySum(counter, keys, total) ==
    IF keys = {} THEN 0
    ELSE LET c == CHOOSE x \in keys : TRUE
         IN  counter[c] * (log2_fixed(total) - log2_fixed(counter[c]))
                 + EntropySum(counter, keys \ {c}, total)

\* round(x, 2) of x = sum / (total * 2^14), in hundredths
Round2(sum, total) == (100 * sum + total * (2 ^ 13)) \div (total * (2 ^ 14))

\* faulty variant: 1 / total computed once, ahead of the sum
calculate_entropy_hoisted(data) ==
    LET counter == Counter(data)
        total == Len(data)
        divisors == {total}
    IN  IF 0 \in divisors
        THEN [raised |-> "ZeroDivisionError", divisors |-> divisors, value |-> None]
        ELSE [raised |-> None, divisors |-> divisors,
              value |-> Round2(EntropySum(counter, DOMAIN counter, total), total)]

\* The call's outcome: the exception it raises (None when it returns), the
\* divisors of the divisions it evaluates (one "count / total" pair per counted
\* character), and the value it returns in hundredths of a bit.  The sum of no
\* terms is the integer 0, and round(-0, 2) is 0.
calculate_entropy(data) ==
    LET counter == Counter(data)
        total == Len(data)
        divisors == {total : c \in DOMAIN counter}
    IN  IF 0 \in divisors
        THEN [raised |-> "ZeroDivisionError", divisors |-> divisors, value |-> None]
        ELSE [raised |-> None, divisors |-> divisors,
              value |-> IF DOMAIN counter = {} THEN 0
                        ELSE Round2(EntropySum(counter, DOMAIN counter, total), total)]

----------------------------------------------------------------------------
(* The visualisation data the script builds from the sender's secret.      *)

UpperHexDigits == <<"0", "1", "2", "3", "4", "5", "6", "7",
                    "8", "9", "A", "B", "C", "D", "E", "F">>

\* int(c, 16) of one hexadecimal character, by character
HexValues ==
    Dict([c \in {HexDigits[i] : i \in 1..16} \cup {UpperHexDigits[i] : i \in 1..16} |->
        CHOOSE v \in 0..15 : c = HexDigits[v + 1] \/ c = UpperHexDigits[v + 1]])

HexValue(c) == HexValues[c]

\* int(h, 16) of a non-empty string of hexadecimal characters
RECURSIVE IntBase16(_)
IntBase16(h) ==
    IF Len(h) = 1 THEN HexValue(h[1])
    ELSE 16 * IntBase16(SubSeq(h, 1, Len(h) - 1)) + HexValue(h[Len(h)])

\* faulty variant: the grid filled in column-major (Fortran) order
ReshapeColumnMajor(a, rows, cols) ==
    IF Len(a) # rows * cols THEN [raised |-> "ValueError", value |-> <<>>]
    ELSE [raised |-> None,
          value |-> List([r \in 1..rows |->
                        List([c \in 1..cols |-> a[(c - 1) * rows + r]])])]

\* numpy: np.array(a).reshape(rows, cols), rows in C (row-major) order;
\* a size other than rows * cols raises ValueError
Reshape(a, rows, cols) ==
    IF Len(a) # rows * cols THEN [raised |-> "ValueError", value |-> <<>>]
    ELSE [raised |-> None,
          value |-> List([r \in 1..rows |->
                        List([c \in 1..cols |-> a[(r - 1) * cols + c]])])]

\* lines 110-111: the heatmap grid
HeatmapGrid(ss_sender) ==
    LET first == Take(ss_sender, 64)
        byte_values == List([i \in 1..Len(first) |-> HexValue(first[i])])
    IN  Reshape(byte_values, 8, 8)

\* lines 127-129: the rows of byte_values_3d after reshape(-1, 3)
ByteTriplets(ss_sender) ==
    LET offsets == Range0(Min(Len(ss_sender), 60), 2)
        hex_pairs == List([k \in DOMAIN offsets |->
                         Slice(ss_sender, offsets[k], offsets[k] + 2)])
        byte_values_3d == List([k \in DOMAIN hex_pairs |-> IntBase16(hex_pairs[k])])
        kept == Take(byte_values_3d, Len(byte_values_3d) - (Len(byte_values_3d) % 3))
    IN  List([r \in 1..(Len(kept) \div 3) |->
            <<kept[3 * (r - 1) + 1], kept[3 * (r - 1) + 2], kept[3 * (r - 1) + 3]>>])

\* lines 141-142: byte_labels and byte_counts; zip(*items) of an empty
\* Counter cannot be unpacked into two names
ByteFrequency(ss_sender) ==
    LET first == Take(ss_sender, 64)
        values == List([i \in 1..Len(first) |-> HexValue(first[i])])
        byte_counter == Counter(values)
        keys == FirstSeen(values, <<>>)
    IN  IF keys = <<>>
        THEN [raised |-> "ValueError", byte_labels |-> <<>>, byte_counts |-> <<>>]
        ELSE [raised |-> None, byte_labels |-> keys,
              byte_counts |-> List([k \in DOMAIN keys |-> byte_counter[keys[k]]])]

----------------------------------------------------------------------------
(* The Streamlit script.  One run of the script is one action.             *)

VARIABLES
    session_state,  \* st.session_state: a dict, here a function on its keys
    text_input,     \* the value of the text input (the script's message)
    button,         \* what st.button returned in the last run
    view,           \* what the last run put on the page
    calls,          \* the core functions the last run called, in order
    keygen_ret,     \* the values kyber_keygen returned, latest call only
    args,           \* direct calls of the functions: the arguments held fixed
    ret,            \* direct calls: the latest call and its result
    prev,           \* direct calls: the call before the latest
    derived         \* direct calls: what derive_shared_secret returned, in order

vars == <<session_state, text_input, button, view, calls, keygen_ret,
          args, ret, prev, derived>>

ui_vars == <<session_state, text_input, button, view, calls, keygen_ret>>

call_vars == <<args, ret, prev, derived>>

\* faulty variant: the keys kept for the run that generated them only
Step1GenerateForget(clicked, session, pair) ==
    IF clicked THEN ("sk" :> pair[2]) @@ ("pk" :> pair[1]) @@ session
    ELSE <<>>

\* faulty variant: line 69 missing, the secret key is never stored
Step1GeneratePkOnly(clicked, session, pair) ==
    IF clicked THEN ("pk" :> pair[1]) @@ session
    ELSE session

\* lines 66-69: the button's branch stores both keys of the pair, pk then sk
Step1Generate(clicked, session, pair) ==
    IF clicked THEN ("sk" :> pair[2]) @@ ("pk" :> pair[1]) @@ session
    ELSE session

\* lines 72-74: the two st.code lines, or the KeyError of a missing 'sk'
Step1Display(session) ==
    IF "pk" \notin DOMAIN session THEN [raised |-> None, lines |-> <<>>]
    ELSE IF "sk" \notin DOMAIN session THEN [raised |-> "KeyError", lines |-> <<>>]
    ELSE [raised |-> None, lines |-> <<Hex(session["pk"]), Hex(session["sk"])>>]

\* faulty variant: the guard tests the message alone
Step3GuardMessageOnly(text, session) == text # <<>>

\* line 81: if message and 'pk' in st.session_state
Step3Guard(text, session) == text # <<>> /\ "pk" \in DOMAIN session

\* lines 100-142: the data of the five charts
Visualizations(ct, ss_sender) ==
    [entropy |-> calculate_entropy(ss_sender),
     grid |-> HeatmapGrid(ss_sender),
     sizes |-> <<Len(ct), Len(ss_sender)>>,
     byte_values_3d |-> ByteTriplets(ss_sender),
     frequency |-> ByteFrequency(ss_sender)]

\* the same for the secrets and ciphertexts of the model, computed once
VisualizationsTable ==
    Dict([p \in urandom(64) \X {Sha256Table[b] : b \in HashInputs} |->
        Visualizations(p[1], p[2])])

\* lines 83-148 once kyber_encapsulate has returned (ct, ss_sender)
Step3Body(session, text, ct, ss_sender) ==
    LET ss_receiver == kyber_decapsulate(ct, session["sk"], text, session["pk"])
        match == ss_sender = ss_receiver
    IN  [ciphertext |-> Take(Hex(ct), 64),
         ss_sender |-> ss_sender,
         ss_receiver |-> ss_receiver,
         banner |-> IF match THEN "Shared secrets match" ELSE "Shared secrets do not match",
         charts |-> IF <<ct, ss_sender>> \in DOMAIN VisualizationsTable
                    THEN VisualizationsTable[<<ct, ss_sender>>]
                    ELSE Visualizations(ct, ss_sender)]

\* the exception that ends Step 3 early, if any
Step3Raised(shown) ==
    IF shown.charts.entropy.raised # None THEN shown.charts.entropy.raised
    ELSE IF shown.charts.grid.raised # None THEN shown.charts.grid.raised
    ELSE shown.charts.frequency.raised

\* One run of the script with the button's and the text input's values.
Run(clicked, text) ==
    \E pair \in (IF clicked THEN kyber_keygen ELSE {<<>>}) :
        LET session == Step1Generate(clicked, session_state, pair)
            keys == Step1Display(session)
            called1 == IF clicked THEN <<"kyber_keygen">> ELSE <<>>
        IN  /\ session_state' = session
            /\ keygen_ret' = IF clicked THEN <<pair>> ELSE keygen_ret
            /\ button' = clicked
            /\ text_input' = text
            /\ IF keys.raised # None
               THEN /\ view' = [exception |-> keys.raised, step1 |-> <<>>, step3 |-> <<>>]
                    /\ calls' = called1
               ELSE IF ~Step3Guard(text, session)
               THEN /\ view' = [exception |-> None, step1 |-> keys.lines, step3 |-> <<>>]
                    /\ calls' = called1
               ELSE IF "pk" \notin DOMAIN session
               THEN /\ view' = [exception |-> "KeyError", step1 |-> keys.lines,
                                step3 |-> <<>>]
                    /\ calls' = called1
               ELSE \E enc \in kyber_encapsulate(session["pk"], text) :
                       IF "sk" \notin DOMAIN session
                       THEN /\ view' = [exception |-> "KeyError", step1 |-> keys.lines,
                                        step3 |-> <<>>]
                            /\ calls' = called1 \o <<"kyber_encapsulate">>
                       ELSE LET shown == Step3Body(session, text, enc[1], enc[2])
                            IN  /\ view' = [exception |-> Step3Raised(shown),
                                            step1 |-> keys.lines, step3 |-> <<shown>>]
                                /\ calls' = called1 \o <<"kyber_encapsulate",
                                                "kyber_decapsulate", "calculate_entropy">>
            /\ UNCHANGED call_vars

\* the user presses "Generate Key Pair"
PressGenerate == Run(TRUE, text_input)

\* the user changes the text input
ChangeMessage == \E text \in Messages \ {text_input} : Run(FALSE, text)

\* the script runs again with nothing changed (page load, manual rerun)
Rerun == Run(FALSE, text_input)

\* no direct call yet
NoCall == [fn |-> "none", ciphertext |-> <<>>, secret_key |-> <<>>, result |-> <<>>]

\* a new session before its first run
NewSession ==
    /\ session_state = <<>>
    /\ text_input = <<>>
    /\ button = FALSE
    /\ view = [exception |-> None, step1 |-> <<>>, step3 |-> <<>>]
    /\ calls = <<>>
    /\ keygen_ret = <<>>

NoCalls ==
    /\ ret = NoCall
    /\ prev = NoCall
    /\ derived = <<>>

Init == NewSession /\ NoCalls /\ args = <<>>

Next == PressGenerate \/ ChangeMessage \/ Rerun

Spec == Init /\ [][Next]_vars

----------------------------------------------------------------------------
(* The KEM functions called directly, as a test would call them: the       *)
(* message and the public key are fixed when the behaviour starts, the     *)
(* ciphertext and the secret key vary from call to call.                   *)

\* most calls of derive_shared_secret followed in one behaviour
MaxDerives == 2

CallDerive ==
    /\ Len(derived) < MaxDerives
    /\ LET result == derive_shared_secret(args.message, args.public_key)
       IN  /\ ret' = [fn |-> "derive_shared_secret", ciphertext |-> <<>>,
                      secret_key |-> <<>>, result |-> result]
           /\ derived' = Append(derived, result)
    /\ prev' = ret
    /\ UNCHANGED <<args, ui_vars>>

CallEncapsulate ==
    /\ \E out \in kyber_encapsulate(args.public_key, args.message) :
           ret' = [fn |-> "kyber_encapsulate", ciphertext |-> out[1],
                   secret_key |-> <<>>, result |-> out[2]]
    /\ prev' = ret
    /\ UNCHANGED <<args, derived, ui_vars>>

CallDecapsulate ==
    /\ \E ciphertext \in urandom(64), secret_key \in urandom(32) :
           ret' = [fn |-> "kyber_decapsulate", ciphertext |-> ciphertext,
                   secret_key |-> secret_key,
                   result |-> kyber_decapsulate(ciphertext, secret_key,
                                                args.message, args.public_key)]
    /\ prev' = ret
    /\ UNCHANGED <<args, derived, ui_vars>>

KemInit ==
    /\ NewSession
    /\ NoCalls
    /\ args \in [message : Messages, public_key : urandom(32)]

KemNext == CallDerive \/ CallEncapsulate \/ CallDecapsulate

KemSpec == KemInit /\ [][KemNext]_vars

----------------------------------------------------------------------------
(* The analysis steps called directly on a string of hexadecimal digits.   *)

\* strings of hexadecimal digits to cut the data from: ct.hex() of a ciphertext
DataSources == {Hex(ct) : ct \in urandom(64)}

\* the data: every prefix up to MaxDataLen, and the secrets of the model
DataSamples ==
    {Take(src, n) : src \in DataSources, n \in 0..MaxDataLen}
        \cup {Sha256Table[b] : b \in HashInputs}

CallEntropy ==
    /\ ret' = [fn |-> "calculate_entropy", ciphertext |-> <<>>, secret_key |-> <<>>,
               result |-> calculate_entropy(args.data)]
    /\ prev' = ret
    /\ UNCHANGED <<args, derived, ui_vars>>

CallHeatmap ==
    /\ ret' = [fn |-> "heatmap", ciphertext |-> <<>>, secret_key |-> <<>>,
               result |-> HeatmapGrid(args.data)]
    /\ prev' = ret
    /\ UNCHANGED <<args, derived, ui_vars>>

CallTriplets ==
    /\ ret' = [fn |-> "byte_values_3d", ciphertext |-> <<>>, secret_key |-> <<>>,
               result |-> ByteTriplets(args.data)]
    /\ prev' = ret
    /\ UNCHANGED <<args, derived, ui_vars>>

CallFrequency ==
    /\ ret' = [fn |-> "byte_counter", ciphertext |-> <<>>, secret_key |-> <<>>,
               result |-> ByteFrequency(args.data)]
    /\ prev' = ret
    /\ UNCHANGED <<args, derived, ui_vars>>

AnalyzerInit ==
    /\ NewSession
    /\ NoCalls
    /\ args \in [data : DataSamples]

AnalyzerNext == CallEntropy \/ CallHeatmap \/ CallTriplets \/ CallFrequency

AnalyzerSpec == AnalyzerInit /\ [][AnalyzerNext]_vars

----------------------------------------------------------------------------
(* Properties.                                                             *)

\* a run of the script reached Step 3 and showed the exchange
Step3Shown == view.step3 # <<>>

LowerHexDigits == {HexDigits[i] : i \in 1..16}

\* C1: for the message in the text input, every public key and every secret
\* key, decapsulating the ciphertext of an encapsulation returns the secret of
\* that encapsulation; and whenever a run of the script shows the exchange, the
\* sender's and the receiver's secrets are equal and the banner is the
\* "Shared secrets match" one.
C1_SecretsMatch ==
    /\ \A public_key \in urandom(32), secret_key \in urandom(32) :
          \A enc \in kyber_encapsulate(public_key, text_input) :
              kyber_decapsulate(enc[1], secret_key, text_input, public_key) = enc[2]
    /\ Step3Shown =>
          /\ view.step3[1].ss_sender = view.step3[1].ss_receiver
          /\ view.step3[1].banner = "Shared secrets match"

\* C1 witness: the exchange is shown for a session whose keys differ
C1_Witness ==
    /\ Step3Shown
    /\ session_state["pk"] # session_state["sk"]
    /\ view.step3[1].banner = "Shared secrets match"

\* C3: a run of the script that the button did not trigger (a changed
\* message, a plain rerun) leaves the session's public and secret key as
\* they were.
C3_KeysStable ==
    [][button' = FALSE => session_state' = session_state]_vars

\* C3 witness: the keys are held while a changed message runs the exchange
C3_Witness ==
    /\ button = FALSE
    /\ Step3Shown
    /\ DOMAIN session_state = {"pk", "sk"}

\* C4: kyber_encapsulate and kyber_decapsulate are called only after
\* kyber_keygen has returned, in this run or an earlier one; and a run with a
\* message but no key pair calls nothing and shows no exchange.
C4_KeygenFirst ==
    /\ \A i \in DOMAIN calls :
          calls[i] \in {"kyber_encapsulate", "kyber_decapsulate"} =>
              /\ keygen_ret # <<>>
              /\ \A j \in DOMAIN calls : calls[j] = "kyber_keygen" => j < i
    /\ (text_input # <<>> /\ "pk" \notin DOMAIN session_state) =>
          /\ calls = <<>>
          /\ ~Step3Shown
          /\ view.exception = None

\* C4 witness: a run that calls both, its keys generated by an earlier run
C4_Witness ==
    /\ button = FALSE
    /\ \E i, j \in DOMAIN calls :
          calls[i] = "kyber_encapsulate" /\ calls[j] = "kyber_decapsulate"

\* C5: the session holds no key or both, the two being the pair one call of
\* kyber_keygen returned, and no run fails on a missing key.
C5_PairWhole ==
    /\ DOMAIN session_state \in {{}, {"pk", "sk"}}
    /\ DOMAIN session_state # {} =>
          keygen_ret = <<<<session_state["pk"], session_state["sk"]>>>>
    /\ view.exception # "KeyError"

\* C5 witness: both keys are displayed and the secret key is read by Step 3
C5_Witness ==
    /\ Len(view.step1) = 2
    /\ "kyber_decapsulate" \in {calls[i] : i \in DOMAIN calls}

\* C10: whenever a run shows the exchange, both secrets are the ones derived
\* from the message and the public key the session holds once the run's key
\* generation step is over, also when that run replaced the pair.
C10_FreshKey ==
    Step3Shown =>
        /\ view.step3[1].ss_sender =
               derive_shared_secret(text_input, session_state["pk"])
        /\ view.step3[1].ss_receiver =
               derive_shared_secret(text_input, session_state["pk"])

\* C10 witness: the button is pressed with a message present, and the run
\* that stores the new pair shows the exchange
C10_Witness ==
    /\ button = TRUE
    /\ Step3Shown
    /\ calls[1] = "kyber_keygen"
    /\ view.step1[1] = Hex(keygen_ret[1][1])

\* C2: a call of kyber_decapsulate returns derive_shared_secret of its message
\* and public key, and two calls that agree on those return the same value
\* whatever their ciphertexts and secret keys.
C2_DecapsulateIgnores ==
    ret.fn = "kyber_decapsulate" =>
        /\ ret.result = derive_shared_secret(args.message, args.public_key)
        /\ prev.fn = "kyber_decapsulate" => prev.result = ret.result

\* C2 witness: two calls in a row with different ciphertexts and secret keys
C2_Witness ==
    /\ ret.fn = "kyber_decapsulate"
    /\ prev.fn = "kyber_decapsulate"
    /\ ret.ciphertext # prev.ciphertext
    /\ ret.secret_key # prev.secret_key

C8_HeatmapGrid ==
    (ret.fn = "heatmap" /\ Len(args.data) = 64) =>
        /\ ret.result.raised = None
        /\ Len(ret.result.value) = 8
        /\ \A r \in 0..7 :
              /\ Len(ret.result.value[r + 1]) = 8
              /\ \A c \in 0..7 :
                    /\ ret.result.value[r + 1][c + 1] \in 0..15
                    /\ HexDigits[ret.result.value[r + 1][c + 1] + 1] =
                           args.data[8 * r + c + 1]

\* C8 witness: a grid that differs from its transpose
C8_Witness ==
    /\ ret.fn = "heatmap"
    /\ Len(args.data) = 64
    /\ ret.result.raised = None
    /\ ret.result.value[1][2] # ret.result.value[2][1]

\* C9: calculate_entropy raises nothing; on the empty string it evaluates no
\* division and returns 0, and on any other string every division is by the
\* string's length.
C9_NoDivisionByZero ==
    ret.fn = "calculate_entropy" =>
        /\ ret.result.raised = None
        /\ 0 \notin ret.result.divisors
        /\ args.data = <<>> => (ret.result.divisors = {} /\ ret.result.value = 0)
        /\ args.data # <<>> => ret.result.divisors = {Len(args.data)}

\* C9 witness: the call on the empty string has returned 0
C9_Witness ==
    /\ ret.fn = "calculate_entropy"
    /\ args.data = <<>>
    /\ ret.result.raised = None
    /\ ret.result.value = 0

====
